---- MODULE Spec2Model ----
(***************************************************************************)
(* The three SVD estimators of the ser package: SVDEmbeddingRegression,    *)
(* DistributedSVD and FederatedSVD.                                        *)
(*                                                                         *)
(* A dataset is a record [r, c, v]: r rows, c columns, v the sequence of   *)
(* rows (a zero-row dataset still has its column count).  Real numbers are *)
(* exact rationals <<n, d>> in lowest terms with d > 0; <<0, 0>> is NaN,   *)
(* the value numpy produces for 0/0.  Floating-point rounding is not       *)
(* modelled, except that eigh may return a zero eigenvalue slightly        *)
(* negative.  What the LAPACK routines (svd, eigh, lstsq) return is        *)
(* represented by its shape, and the spectrum by the squares of the        *)
(* singular values, chosen among the non-negative descending sequences     *)
(* whose sum is the squared Frobenius norm of the factored matrix.         *)
(* An optional value (a Python attribute that may be None) is <<>> for     *)
(* None and <<x>> for the value x.                                         *)
(***************************************************************************)
EXTENDS Integers, Sequences, FiniteSets, TLC

\* ---------------------------------------------------------------- bounds
MaxParts == 2            \* partitions in a partition list
MaxRows == 3             \* rows in a partition list, all partitions together
Widths == {1, 2}         \* feature counts of a partition
Vals == {0, 1}           \* entries of a dataset

\* ------------------------------------------------------------- optionals
None == <<>>
Some(x) == <<x>>
IsNone(o) == o = <<>>
Val(o) == o[1]

\* ------------------------------------------------------------- rationals
Abs(n) == IF n < 0 THEN -n ELSE n

RECURSIVE Gcd(_, _)
Gcd(a, b) == IF b = 0 THEN a ELSE Gcd(b, a % b)

NaN == <<0, 0>>
IsNaN(q) == q[2] = 0

\* n/d as numpy divides: x/0 is NaN when x = 0 (and the sums divided here
\* are zero whenever the count is zero).
Rat(n, d) ==
    IF d = 0 THEN NaN
    ELSE LET g == Gcd(Abs(n), Abs(d))
             s == IF d < 0 THEN -1 ELSE 1
         IN  <<(s * n) \div g, (s * d) \div g>>

RInt(n) == <<n, 1>>
RAdd(p, q) == IF IsNaN(p) \/ IsNaN(q) THEN NaN
              ELSE Rat(p[1] * q[2] + q[1] * p[2], p[2] * q[2])
RSub(p, q) == IF IsNaN(p) \/ IsNaN(q) THEN NaN
              ELSE Rat(p[1] * q[2] - q[1] * p[2], p[2] * q[2])
RMul(p, q) == IF IsNaN(p) \/ IsNaN(q) THEN NaN
              ELSE Rat(p[1] * q[1], p[2] * q[2])
\* p <= q on numbers (every comparison with NaN is false)
RLeq(p, q) == ~IsNaN(p) /\ ~IsNaN(q) /\ p[1] * q[2] <= q[1] * p[2]

RECURSIVE RSum(_)
RSum(qs) == IF qs = <<>> THEN RInt(0) ELSE RAdd(Head(qs), RSum(Tail(qs)))

RECURSIVE ISum(_)
ISum(ns) == IF ns = <<>> THEN 0 ELSE Head(ns) + ISum(Tail(ns))

Min(a, b) == IF a <= b THEN a ELSE b
SetMax(S) == CHOOSE m \in S : \A x \in S : x <= m

\* -------------------------------------------------------------- datasets
Mat(r, c, v) == [r |-> r, c |-> c, v |-> v]

\* every dataset of r rows and c columns over Vals
MatsOf(r, c) == {Mat(r, c, v) : v \in [1..r -> [1..c -> Vals]]}

\* np.vstack of datasets of one width
RECURSIVE ConcatRows(_)
ConcatRows(ms) == IF ms = <<>> THEN <<>> ELSE Head(ms).v \o ConcatRows(Tail(ms))

TotalRows(ms) == ISum([i \in 1..Len(ms) |-> ms[i].r])
SameWidth(ms) == \A i, j \in 1..Len(ms) : ms[i].c = ms[j].c

\* partition lists: at most MaxParts datasets, at most MaxRows rows in all
ShapeLists == {sh \in UNION {[1..m -> (0..MaxRows) \X Widths] : m \in 0..MaxParts} :
                  ISum([i \in 1..Len(sh) |-> sh[i][1]]) <= MaxRows}

RECURSIVE ListsOfShape(_)
ListsOfShape(sh) ==
    IF sh = <<>> THEN {<<>>}
    ELSE {<<X>> \o rest : X \in MatsOf(Head(sh)[1], Head(sh)[2]),
                          rest \in ListsOfShape(Tail(sh))}

\* every partition list within the bounds whose partitions share their
\* feature count
PartitionLists ==
    UNION {ListsOfShape(sh) :
              sh \in {sh \in ShapeLists : \A i, j \in 1..Len(sh) : sh[i][2] = sh[j][2]}}

\* ------------------------------------------------------------ exceptions
NoExc == "none"
NotFittedError == "ValueError: Model has not been fitted yet."
ZeroDivisionError == "ZeroDivisionError: division by zero"
BroadcastError == "ValueError: operands could not be broadcast together"
ConcatEmptyError == "ValueError: need at least one array to concatenate"
ConcatShapeError == "ValueError: all the input array dimensions except for the concatenation axis must match exactly"
EighError == "LinAlgError: Eigenvalues did not converge"
SvdEmptyError == "ValueError: svd of an empty array"
LstsqError == "LinAlgError: Incompatible dimensions"
NoneOperandError == "TypeError: unsupported operand type(s) for -: 'float' and 'NoneType'"
NoneAttributeError == "AttributeError: 'NoneType' object has no attribute 'T'"
NoneMatmulError == "TypeError/ValueError: matmul with None operand"
MatmulShapeError == "ValueError: matmul: core dimension mismatch"

\* ------------------------------------------------- numpy array arithmetic
\* width of the broadcast of two widths; 0 when they cannot be broadcast
BWidth(a, b) == IF a = b THEN a ELSE IF a = 1 THEN b ELSE IF b = 1 THEN a ELSE 0
BIdx(len, j) == IF len = 1 THEN 1 ELSE j

\* u + v on integer vectors with broadcasting; <<>> when the shapes clash
BAddVec(u, v) ==
    LET w == BWidth(Len(u), Len(v))
    IN  [j \in 1..w |-> u[BIdx(Len(u), j)] + v[BIdx(Len(v), j)]]

\* A + B on square integer matrices with broadcasting
BAddMat(A, B) ==
    LET w == BWidth(Len(A), Len(B))
    IN  [j \in 1..w |-> [k \in 1..w |->
            A[BIdx(Len(A), j)][BIdx(Len(A), k)] + B[BIdx(Len(B), j)][BIdx(Len(B), k)]]]

\* Python's sum(...) over a non-empty list of vectors: a left fold
RECURSIVE FoldVec(_, _)
FoldVec(acc, vs) == IF vs = <<>> THEN acc ELSE FoldVec(BAddVec(acc, Head(vs)), Tail(vs))
SumVecs(vs) == FoldVec(Head(vs), Tail(vs))

RECURSIVE FoldMat(_, _)
FoldMat(acc, As) == IF As = <<>> THEN acc ELSE FoldMat(BAddMat(acc, Head(As)), Tail(As))
SumMats(As) == FoldMat(Head(As), Tail(As))

\* np.sum(X, axis=0)
ColSum(X) == [j \in 1..X.c |-> ISum([i \in 1..X.r |-> X.v[i][j]])]

\* X - mean with broadcasting of the columns (the widths are compatible)
Center(X, mean) ==
    LET w == BWidth(X.c, Len(mean))
    IN  [i \in 1..X.r |-> [j \in 1..w |->
            RSub(RInt(X.v[i][BIdx(X.c, j)]), mean[BIdx(Len(mean), j)])]]

\* squared Frobenius norm of a matrix of rationals
Frob2(M) == RSum([i \in 1..Len(M) |-> RSum([j \in 1..Len(M[i]) |-> RMul(M[i][j], M[i][j])])])

\* ------------------------------------------------------ LAPACK collaborator
Weights == {0, 1, 2}
Descending(w) == \A i \in 1..(Len(w) - 1) : w[i] >= w[i + 1]

\* The squared singular values svd(..., full_matrices=False) can return for a
\* matrix with k = min(rows, cols) and squared Frobenius norm t: k values,
\* non-negative, in descending order, of sum t.
Spectra(k, t) ==
    IF k = 0 THEN {<<>>}
    ELSE IF t[1] = 0 THEN {[i \in 1..k |-> t]}
    ELSE {[i \in 1..k |-> RMul(t, Rat(w[i], ISum(w)))] :
             w \in {w \in [1..k -> Weights] : Descending(w) /\ w[1] >= 1}}

Reverse(s) == [i \in 1..Len(s) |-> s[Len(s) + 1 - i]]

\* a zero eigenvalue as the rounding of the factorization can return it: zero
\* or slightly below
NegEps == <<-1, 1000>>
Rounded(s) == {r \in [1..Len(s) -> {RInt(0), NegEps} \cup {s[i] : i \in 1..Len(s)}] :
                  \A i \in 1..Len(s) : IF s[i] = RInt(0) THEN r[i] \in {RInt(0), NegEps}
                                                        ELSE r[i] = s[i]}

\* The eigenvalues np.linalg.eigh can return for a symmetric p x p matrix of
\* trace t: p values of sum t up to the rounding of the zeros, in an order
\* the caller must not rely on.
EighValues(p, t) ==
    UNION {Rounded(s) : s \in Spectra(p, t) \cup {Reverse(s) : s \in Spectra(p, t)}}

\* np.argsort(eigenvalues)[::-1] applied to the eigenvalues: descending order
RECURSIVE SortDesc(_)
SortDesc(s) ==
    IF s = <<>> THEN <<>>
    ELSE LET i == CHOOSE i \in 1..Len(s) : \A j \in 1..Len(s) : RLeq(s[j], s[i]) \/ IsNaN(s[i])
             rest == [j \in 1..(Len(s) - 1) |-> IF j < i THEN s[j] ELSE s[j + 1]]
         IN  <<s[i]>> \o SortDesc(rest)

\* np.maximum(eigenvalues, 0); the square root is in the representation
Clamp(s) == [i \in 1..Len(s) |-> IF RLeq(s[i], RInt(0)) THEN RInt(0) ELSE s[i]]

\* a[:n] for n >= 1, and a whole when n is None
KeepCount(nc, len) == IF IsNone(nc) THEN len ELSE Min(Val(nc), len)
Truncate(nc, s) == SubSeq(s, 1, KeepCount(nc, Len(s)))

\* ------------------------------------------------------------ FederatedSVD
\* FederatedSVD._compute_local_statistics
ComputeLocalStatistics(X) ==
    [n_samples |-> X.r,
     local_sum |-> ColSum(X),
     local_cov |-> [j \in 1..X.c |-> [k \in 1..X.c |->
                      ISum([i \in 1..X.r |-> X.v[i][j] * X.v[i][k]])]]]

LocalStats(X_nodes) == [i \in 1..Len(X_nodes) |-> ComputeLocalStatistics(X_nodes[i])]

\* a total that takes every node to hold as many rows as the first
StatsTotalOfFirst(local_stats_list) ==
    IF local_stats_list = <<>> THEN 0
    ELSE Len(local_stats_list) * local_stats_list[1].n_samples

\* total_samples = sum(stats['n_samples'] ...)
StatsTotal(local_stats_list) ==
    ISum([i \in 1..Len(local_stats_list) |-> local_stats_list[i].n_samples])

\* global_sum = sum(stats['local_sum'] ...), of a non-empty list
StatsSum(local_stats_list) ==
    SumVecs([i \in 1..Len(local_stats_list) |-> local_stats_list[i].local_sum])

\* global_cov = sum(stats['local_cov'] ...), of a non-empty list
StatsCov(local_stats_list) ==
    SumMats([i \in 1..Len(local_stats_list) |-> local_stats_list[i].local_cov])

\* global_sum / total_samples
MeanOf(global_sum, total_samples) ==
    [j \in 1..Len(global_sum) |-> Rat(global_sum[j], total_samples)]

\* the centering without the sample count
CenterCovNoCount(global_cov, total_samples, global_mean) ==
    [j \in 1..Len(global_cov) |-> [k \in 1..Len(global_cov) |->
        RSub(RInt(global_cov[j][k]), RMul(global_mean[j], global_mean[k]))]]

\* global_cov - total_samples * np.outer(global_mean, global_mean)
CenterCov(global_cov, total_samples, global_mean) ==
    [j \in 1..Len(global_cov) |-> [k \in 1..Len(global_cov) |->
        RSub(RInt(global_cov[j][k]),
             RMul(RInt(total_samples), RMul(global_mean[j], global_mean[k])))]]

\* FederatedSVD._aggregate_statistics: the exception it raises, or the
\* aggregated record
AggregateStatistics(local_stats_list) ==
    IF local_stats_list = <<>>
    THEN [exc |-> ZeroDivisionError, stats |-> None]
    ELSE IF StatsSum(local_stats_list) = <<>>
    THEN [exc |-> BroadcastError, stats |-> None]
    ELSE LET total_samples == StatsTotal(local_stats_list)
             global_mean == MeanOf(StatsSum(local_stats_list), total_samples)
         IN  [exc |-> NoExc,
              stats |-> Some([mean |-> global_mean,
                              cov |-> CenterCov(StatsCov(local_stats_list),
                                                total_samples, global_mean),
                              n_samples |-> total_samples])]

Trace(C) == RSum([j \in 1..Len(C) |-> C[j][j]])
HasNaN(C) == \E j, k \in 1..Len(C) : IsNaN(C[j][k])

\* The fields a fit leaves and the exception it ends with.  old holds the
\* fields before the call: a field the call does not reach keeps its value.
Fields(mean, meany, s, Vt, U, weights) ==
    [mean_ |-> mean, mean_y_ |-> meany, s_ |-> s, Vt_ |-> Vt, U_ |-> U, weights_ |-> weights]
Unset == Fields(None, None, None, None, None, None)
\* raw: the nodes' datasets the call read outside the local statistics
Outcome(f, exc) == [f |-> f, exc |-> exc, raw |-> None]

\* FederatedSVD.fit from np.linalg.eigh on, with the eigenvalues ev it returned
FFitFrom(nc, X_nodes, old, g, ev) ==
    LET singular_values == Truncate(nc, Clamp(SortDesc(ev)))
        k == Len(singular_values)
        f2 == [old EXCEPT !.mean_ = Some(g.mean), !.s_ = Some(singular_values),
                          !.Vt_ = Some(<<k, Len(g.cov)>>)]
        \* X_full = np.vstack([np.asarray(X) for X in X_nodes])
        pooled == Some([i \in 1..Len(X_nodes) |-> X_nodes[i].v])
    IN  IF ~SameWidth(X_nodes)
        THEN [Outcome(f2, ConcatShapeError) EXCEPT !.raw = pooled]
        ELSE [Outcome([f2 EXCEPT !.U_ = Some(<<g.n_samples, k>>)], NoExc)
                 EXCEPT !.raw = pooled]

\* FederatedSVD.fit: every way the call can end
FFitOutcomes(nc, X_nodes, old) ==
    LET agg == AggregateStatistics(LocalStats(X_nodes))
        g == Val(agg.stats)
    IN  IF agg.exc # NoExc THEN {Outcome(old, agg.exc)}
        ELSE IF HasNaN(g.cov)
        THEN {Outcome([old EXCEPT !.mean_ = Some(g.mean)], EighError),
              FFitFrom(nc, X_nodes, old, g, [j \in 1..Len(g.cov) |-> NaN])}
        ELSE {FFitFrom(nc, X_nodes, old, g, ev) : ev \in EighValues(Len(g.cov), Trace(g.cov))}

\* the constructor's arguments as the instance stores them
Self(nc, n_iter) == [n_components |-> nc, n_iterations |-> n_iter]

\* a fit that takes n_iterations for the number of components to keep
FFitSelfIterated(self, X_nodes, old) == FFitOutcomes(self.n_iterations, X_nodes, old)

\* FederatedSVD.fit(self, X_nodes): of self it reads n_components only
FFitSelf(self, X_nodes, old) == FFitOutcomes(self.n_components, X_nodes, old)

\* ---------------------------------------------------------- DistributedSVD
\* the unweighted average of the partitions' own means
GlobalMeanNaive(X_partitions) ==
    LET w == Len(SumVecs([i \in 1..Len(X_partitions) |-> ColSum(X_partitions[i])]))
    IN  [j \in 1..w |->
            RMul(Rat(1, Len(X_partitions)),
                 RSum([i \in 1..Len(X_partitions) |->
                          Rat(ColSum(X_partitions[i])[BIdx(X_partitions[i].c, j)],
                              X_partitions[i].r)]))]

\* sum(np.sum(X, axis=0) for X in X_partitions) / total_samples, of a
\* non-empty list whose column sums broadcast
GlobalMean(X_partitions) ==
    MeanOf(SumVecs([i \in 1..Len(X_partitions) |-> ColSum(X_partitions[i])]),
           TotalRows(X_partitions))

\* X_centered = [X - self.mean_ for X in X_partitions]
CenterAll(X_partitions, mean) ==
    [i \in 1..Len(X_partitions) |-> Center(X_partitions[i], mean)]

\* the partitions that get a local SVD
NonEmpty(X_centered) == SelectSeq(X_centered, LAMBDA M : Len(M) > 0)

\* a stacking in which a zero-row partition leaves a degenerate block of one row
StackedRowsNoSkip(X_centered, w) ==
    ISum([i \in 1..Len(X_centered) |->
             IF Len(X_centered[i]) = 0 THEN 1 ELSE Min(Len(X_centered[i]), w)])

\* rows of np.vstack(weighted_Vt): each local SVD gives min(rows, cols) of them
StackedRows(X_centered, w) ==
    ISum([i \in 1..Len(NonEmpty(X_centered)) |-> Min(Len(NonEmpty(X_centered)[i]), w)])

\* squared Frobenius norm of the stacked diag(s_local) @ Vt_local blocks
StackedFrob2(X_centered) ==
    RSum([i \in 1..Len(X_centered) |-> Frob2(X_centered[i])])

\* DistributedSVD.fit: every way the call can end
DFitOutcomes(nc, X_partitions, old) ==
    IF X_partitions = <<>> THEN {Outcome(old, ZeroDivisionError)}
    ELSE IF SumVecs([i \in 1..Len(X_partitions) |-> ColSum(X_partitions[i])]) = <<>>
    THEN {Outcome(old, BroadcastError)}
    ELSE LET mean == GlobalMean(X_partitions)
             w == Len(mean)
             X_centered == CenterAll(X_partitions, mean)
             f1 == [old EXCEPT !.mean_ = Some(mean)]
         IN  IF NonEmpty(X_centered) = <<>>
             THEN {Outcome(f1, ConcatEmptyError)}
             ELSE {LET s == Truncate(nc, s_global)
                   IN  Outcome([f1 EXCEPT !.s_ = Some(s),
                                          !.Vt_ = Some(<<Len(s), w>>),
                                          !.U_ = Some(<<TotalRows(X_partitions), Len(s)>>)],
                               NoExc) :
                   s_global \in Spectra(Min(StackedRows(X_centered, w), w),
                                        StackedFrob2(X_centered))}

\* --------------------------------------------------- SVDEmbeddingRegression
\* np.mean(X, axis=0)
ColMean(X) == [j \in 1..X.c |-> Rat(ColSum(X)[j], X.r)]
\* np.mean(y)
VecMean(y) == Rat(ISum(y), Len(y))

\* SVDEmbeddingRegression.fit from the truncation on, with the squared
\* singular values s the SVD returned
SFitFrom(nc, X, y, f1, s_full) ==
    LET s == Truncate(nc, s_full)
        k == Len(s)
        f2 == [f1 EXCEPT !.U_ = Some(<<X.r, k>>), !.s_ = Some(s), !.Vt_ = Some(<<k, X.c>>)]
    IN  IF Len(y) # X.r
        THEN Outcome(f2, LstsqError)
        ELSE Outcome([f2 EXCEPT !.weights_ = Some(<<k>>)], NoExc)

\* SVDEmbeddingRegression.fit: every way the call can end.  Whether scipy's
\* svd accepts a zero-row matrix depends on its version.
SFitOutcomes(nc, X, y, old) ==
    LET mean_X == ColMean(X)
        f1 == [old EXCEPT !.mean_ = Some(mean_X), !.mean_y_ = Some(VecMean(y))]
    IN  IF X.r = 0
        THEN {Outcome(f1, SvdEmptyError), SFitFrom(nc, X, y, f1, <<>>)}
        ELSE {SFitFrom(nc, X, y, f1, s_full) :
                 s_full \in Spectra(Min(X.r, X.c), Frob2(Center(X, mean_X)))}

\* ------------------------------------------------------------------ state
VARIABLES
    est,            \* the estimator class of the instance
    n_components,   \* None or the number of components asked for
    n_iterations,   \* FederatedSVD's n_iterations; None for the others
    data,           \* the caller's datasets: the partition list, or <<X>>
    y,              \* the caller's targets (SVDEmbeddingRegression); else None
    mean_,          \* mean_ (mean_X_ of SVDEmbeddingRegression)
    mean_y_,
    s_,             \* the squares of the singular values
    Vt_,            \* shape <<components, features>>
    U_,             \* shape <<samples, components>>
    weights_,       \* shape <<components>>
    last,           \* the last call: operation, exception, value returned
    global_stats,   \* what _aggregate_statistics returned to the last fit
    central_view    \* what the last FederatedSVD.fit read from the nodes

caller == <<est, n_components, n_iterations, data, y>>
fitted == <<mean_, mean_y_, s_, Vt_, U_, weights_>>
ghost == <<global_stats, central_view>>
vars == <<est, n_components, n_iterations, data, y, mean_, mean_y_, s_, Vt_, U_,
          weights_, last, global_stats, central_view>>

SER == "SVDEmbeddingRegression"
DSVD == "DistributedSVD"
FSVD == "FederatedSVD"

MaxComp == SetMax(Widths) + 1
NComps == {None} \cup {Some(k) : k \in 1..MaxComp}
DefaultIterations == 10

Cur == Fields(mean_, mean_y_, s_, Vt_, U_, weights_)
SetFields(f) ==
    /\ mean_' = f.mean_
    /\ mean_y_' = f.mean_y_
    /\ s_' = f.s_
    /\ Vt_' = f.Vt_
    /\ U_' = f.U_
    /\ weights_' = f.weights_

\* fresh: no field was set when the call began
Call(op, exc, ret) == [op |-> op, exc |-> exc, ret |-> ret, fresh |-> Cur = Unset]

\* The datasets the caller holds in Spec: one or two per shape, all rows
\* equal ("ones") or not ("alt").
Kinds == {"ones", "alt"}
PatternMat(r, c, kind) ==
    Mat(r, c, [i \in 1..r |-> [j \in 1..c |-> IF kind = "ones" THEN 1 ELSE (i + j) % 2]])
PatternLists ==
    {[i \in 1..Len(sh) |-> PatternMat(sh[i][1], sh[i][2], kind)] :
        sh \in ShapeLists, kind \in Kinds}
PatternTargets ==
    {[i \in 1..n |-> IF kind = "ones" THEN 1 ELSE i % 2] : n \in 0..MaxRows, kind \in Kinds}

\* __init__ of the three classes: every fitted field None
Constructed ==
    /\ mean_ = None /\ mean_y_ = None /\ s_ = None
    /\ Vt_ = None /\ U_ = None /\ weights_ = None
    /\ last = [op |-> "__init__", exc |-> NoExc, ret |-> None, fresh |-> TRUE]
    /\ global_stats = None
    /\ central_view = [stats |-> <<>>, raw |-> None]

Init ==
    /\ est \in {SER, DSVD, FSVD}
    /\ n_components \in NComps
    /\ n_iterations = IF est = FSVD THEN Some(DefaultIterations) ELSE None
    /\ IF est = SER
       THEN /\ data \in {<<PatternMat(r, c, kind)>> :
                            r \in 0..MaxRows, c \in Widths, kind \in Kinds}
            /\ y \in {Some(t) : t \in PatternTargets}
       ELSE data \in PatternLists /\ y = None
    /\ Constructed

\* DistributedSVD.fit and FederatedSVD.fit on every partition list of one
\* feature count within the bounds.
InitStats ==
    /\ est \in {DSVD, FSVD}
    /\ n_components = None
    /\ n_iterations = IF est = FSVD THEN Some(DefaultIterations) ELSE None
    /\ data \in PartitionLists
    /\ y = None
    /\ Constructed

\* ------------------------------------------------------------------- fit
SFit ==
    /\ est = SER
    /\ \E out \in SFitOutcomes(n_components, data[1], Val(y), Cur) :
          /\ SetFields(out.f)
          /\ last' = Call("fit", out.exc, None)
    /\ UNCHANGED <<caller, ghost>>

DFit ==
    /\ est = DSVD
    /\ \E out \in DFitOutcomes(n_components, data, Cur) :
          /\ SetFields(out.f)
          /\ last' = Call("fit", out.exc, None)
    /\ UNCHANGED <<caller, ghost>>

FFit ==
    /\ est = FSVD
    /\ \E out \in FFitSelf(Self(n_components, n_iterations), data, Cur) :
          /\ SetFields(out.f)
          /\ last' = Call("fit", out.exc, None)
          /\ central_view' = [stats |-> LocalStats(data), raw |-> out.raw]
    /\ global_stats' = AggregateStatistics(LocalStats(data)).stats
    /\ UNCHANGED caller

\* ------------------------------------------------------------- transform
\* transform(X) of the three classes on the fields f: the exception raised,
\* or the shape of the matrix returned.  X - None raises for an X with
\* elements; Vt_ of None has no attribute T.
TransformResult(f, X) ==
    IF IsNone(f.mean_)
    THEN [exc |-> IF X.r > 0 THEN NoneOperandError ELSE NoneAttributeError, ret |-> None]
    ELSE IF BWidth(X.c, Len(Val(f.mean_))) = 0
    THEN [exc |-> BroadcastError, ret |-> None]
    ELSE IF IsNone(f.Vt_)
    THEN [exc |-> NoneAttributeError, ret |-> None]
    ELSE IF BWidth(X.c, Len(Val(f.mean_))) # Val(f.Vt_)[2]
    THEN [exc |-> MatmulShapeError, ret |-> None]
    ELSE [exc |-> NoExc, ret |-> Some(<<X.r, Val(f.Vt_)[1]>>)]

\* SVDEmbeddingRegression.predict: the projection of transform, then
\* X_reduced @ self.weights_ + self.mean_y_
PredictResult(f, X) ==
    LET t == TransformResult(f, X)
    IN  IF t.exc # NoExc THEN t
        ELSE IF IsNone(f.weights_) THEN [exc |-> NoneMatmulError, ret |-> None]
        ELSE [exc |-> NoExc, ret |-> Some(<<X.r>>)]

\* np.sum((y - np.mean(y)) ** 2); the sum over an empty y is 0
SsTot(y_true) == RSum([i \in 1..Len(y_true) |->
                    RMul(RSub(RInt(y_true[i]), VecMean(y_true)), RSub(RInt(y_true[i]), VecMean(y_true)))])

\* SVDEmbeddingRegression.score: every way the call can end.  r2 is what
\* 1 - (ss_res / ss_tot) evaluates to on numpy floats: x / 0 is nan for x = 0
\* and inf otherwise, with a RuntimeWarning and no exception.  ss_res is the
\* sum of the squared residuals of predict, zero or not as lstsq's weights
\* and the rounding have it; it is zero when there is no residual.
ScoreResults(f, X, y_true) ==
    LET p == PredictResult(f, X)
    IN  IF p.exc # NoExc THEN {p}
        ELSE IF ~(Len(y_true) = X.r \/ Len(y_true) = 1 \/ X.r = 1)
        THEN {[exc |-> BroadcastError, ret |-> None]}
        ELSE IF SsTot(y_true) = RInt(0)
        THEN {[exc |-> NoExc, ret |-> Some([ss_tot |-> SsTot(y_true), r2 |-> v])] :
                 v \in IF Len(y_true) = 0 \/ X.r = 0 THEN {"nan"} ELSE {"nan", "-inf"}}
        ELSE {[exc |-> NoExc,
               ret |-> Some([ss_tot |-> SsTot(y_true),
                             r2 |-> IF IsNaN(Val(f.mean_y_)) THEN "nan" ELSE "finite"])]}

\* inverse_transform of DistributedSVD and FederatedSVD on a matrix of shape
\* <<r, c>>: X_transformed @ self.Vt_ + self.mean_
InverseResult(f, r, c) ==
    IF IsNone(f.Vt_) THEN [exc |-> NoneMatmulError, ret |-> None]
    ELSE IF c # Val(f.Vt_)[1] THEN [exc |-> MatmulShapeError, ret |-> None]
    ELSE [exc |-> NoExc, ret |-> Some(<<r, Val(f.Vt_)[2]>>)]

\* explained_variance_ratio: variance / np.sum(variance), variance = s_ ** 2
VarianceRatio(s) == [i \in 1..Len(s) |-> IF IsNaN(s[i]) \/ IsNaN(RSum(s)) THEN NaN
                                         ELSE Rat(s[i][1] * RSum(s)[2], s[i][2] * RSum(s)[1])]
\* a fitted check on mean_, the field a fit assigns first
ExplainedResultByMean(f) ==
    IF IsNone(f.mean_) THEN [exc |-> NotFittedError, ret |-> None]
    ELSE IF IsNone(f.s_) THEN [exc |-> NoneOperandError, ret |-> None]
    ELSE [exc |-> NoExc, ret |-> Some(VarianceRatio(Val(f.s_)))]

ExplainedResult(f) ==
    IF IsNone(f.s_) THEN [exc |-> NotFittedError, ret |-> None]
    ELSE [exc |-> NoExc, ret |-> Some(VarianceRatio(Val(f.s_)))]

\* FederatedSVD.get_privacy_budget
PrivacyBudget ==
    [method |-> "Federated Learning",
     data_sharing |-> "Only aggregated statistics (mean, covariance)",
     raw_data_shared |-> FALSE,
     privacy_level |-> "High - raw data never leaves local nodes"]

\* the datasets the caller passes to transform and predict
QueryInputs == {data[i] : i \in 1..Len(data)}

\* a transform that takes the mean of its argument and keeps it
TransformRefitting ==
    /\ \E X \in QueryInputs :
          /\ last' = Call("transform", TransformResult(Cur, X).exc, TransformResult(Cur, X).ret)
          /\ mean_' = Some(ColMean(X))
    /\ UNCHANGED <<caller, mean_y_, s_, Vt_, U_, weights_, ghost>>

Transform ==
    /\ \E X \in QueryInputs :
          last' = Call("transform", TransformResult(Cur, X).exc, TransformResult(Cur, X).ret)
    /\ UNCHANGED <<caller, fitted, ghost>>

Predict ==
    /\ est = SER
    /\ \E X \in QueryInputs :
          last' = Call("predict", PredictResult(Cur, X).exc, PredictResult(Cur, X).ret)
    /\ UNCHANGED <<caller, fitted, ghost>>

Score ==
    /\ est = SER
    /\ \E res \in ScoreResults(Cur, data[1], Val(y)) :
          last' = Call("score", res.exc, res.ret)
    /\ UNCHANGED <<caller, fitted, ghost>>

InverseTransform ==
    /\ est \in {DSVD, FSVD}
    /\ \E c \in 1..MaxComp :
          last' = Call("inverse_transform", InverseResult(Cur, 1, c).exc,
                       InverseResult(Cur, 1, c).ret)
    /\ UNCHANGED <<caller, fitted, ghost>>

ExplainedVarianceRatio ==
    /\ est \in {DSVD, FSVD}
    /\ last' = Call("explained_variance_ratio", ExplainedResult(Cur).exc, ExplainedResult(Cur).ret)
    /\ UNCHANGED <<caller, fitted, ghost>>

GetPrivacyBudget ==
    /\ est = FSVD
    /\ last' = Call("get_privacy_budget", NoExc, Some(PrivacyBudget))
    /\ UNCHANGED <<caller, fitted, ghost>>

\* --------------------------------------------------------- fit_transform
\* np.vstack of the caller's partitions, then transform: the dataset pooled
Pooled(X_partitions) ==
    Mat(TotalRows(X_partitions), X_partitions[1].c, ConcatRows(X_partitions))

\* fit_transform of DistributedSVD and FederatedSVD after a fit that left f
PooledTransform(f, X_partitions) ==
    IF ~SameWidth(X_partitions) THEN [exc |-> ConcatShapeError, ret |-> None]
    ELSE TransformResult(f, Pooled(X_partitions))

SFitTransform ==
    /\ est = SER
    /\ \E out \in SFitOutcomes(n_components, data[1], Val(y), Cur) :
          /\ SetFields(out.f)
          /\ last' = IF out.exc # NoExc THEN Call("fit_transform", out.exc, None)
                     ELSE Call("fit_transform", TransformResult(out.f, data[1]).exc,
                               TransformResult(out.f, data[1]).ret)
    /\ UNCHANGED <<caller, ghost>>

DFitTransform ==
    /\ est = DSVD
    /\ \E out \in DFitOutcomes(n_components, data, Cur) :
          /\ SetFields(out.f)
          /\ last' = IF out.exc # NoExc THEN Call("fit_transform", out.exc, None)
                     ELSE Call("fit_transform", PooledTransform(out.f, data).exc,
                               PooledTransform(out.f, data).ret)
    /\ UNCHANGED <<caller, ghost>>

FFitTransform ==
    /\ est = FSVD
    /\ \E out \in FFitSelf(Self(n_components, n_iterations), data, Cur) :
          /\ SetFields(out.f)
          /\ last' = IF out.exc # NoExc THEN Call("fit_transform", out.exc, None)
                     ELSE Call("fit_transform", PooledTransform(out.f, data).exc,
                               PooledTransform(out.f, data).ret)
          /\ central_view' = [stats |-> LocalStats(data), raw |-> out.raw]
    /\ global_stats' = AggregateStatistics(LocalStats(data)).stats
    /\ UNCHANGED caller

Next ==
    \/ SFit \/ DFit \/ FFit
    \/ SFitTransform \/ DFitTransform \/ FFitTransform
    \/ Transform \/ Predict \/ Score \/ InverseTransform
    \/ ExplainedVarianceRatio \/ GetPrivacyBudget

Spec == Init /\ [][Next]_vars

NextStats == DFit \/ FFit
SpecStats == InitStats /\ [][NextStats]_vars

\* the instances constructed with the default arguments
InitDefault == Init /\ n_components = None
SpecDefault == InitDefault /\ [][Next]_vars

\* The inputs a caller passes to one instance in turn: the "alt" partition
\* lists of at least one row in all and partitions of at most one row, and
\* for SVDEmbeddingRegression an X of one row with targets of any length
\* within the bounds.
RefitLists ==
    {l \in PatternLists :
        /\ TotalRows(l) >= 1
        /\ \A i \in 1..Len(l) : l[i].r <= 1 /\ l[i] = PatternMat(l[i].r, l[i].c, "alt")}
RefitTargets == {[i \in 1..n |-> i % 2] : n \in 0..MaxRows}
RefitInputs(e) ==
    IF e = SER
    THEN {[data |-> l, y |-> Some(t)] : l \in {l \in RefitLists : Len(l) = 1}, t \in RefitTargets}
    ELSE {[data |-> l, y |-> None] : l \in RefitLists}

InitRefit ==
    /\ est \in {SER, DSVD, FSVD}
    /\ n_components = None
    /\ n_iterations = IF est = FSVD THEN Some(DefaultIterations) ELSE None
    /\ \E in \in RefitInputs(est) : data = in.data /\ y = in.y
    /\ Constructed

\* the caller takes other datasets for its next call
NewInput ==
    /\ \E in \in RefitInputs(est) :
          /\ in.data # data \/ in.y # y
          /\ data' = in.data
          /\ y' = in.y
    /\ UNCHANGED <<est, n_components, n_iterations, fitted, last, ghost>>

NextRefit == SFit \/ DFit \/ FFit \/ Transform \/ NewInput
SpecRefit == InitRefit /\ [][NextRefit]_vars

\* DistributedSVD on every partition list of one feature count within the
\* bounds, zero-row partitions included
InitDist ==
    /\ est = DSVD
    /\ n_components = None
    /\ n_iterations = None
    /\ data \in PartitionLists
    /\ y = None
    /\ Constructed
NextDist == DFit
SpecDist == InitDist /\ [][NextDist]_vars

\* FederatedSVD instances constructed with the n_iterations of Iterations:
\* the default, the value of test_federated_svd_iterations, and 1
Iterations == {1, DefaultIterations, 20}
InitIter ==
    /\ est = FSVD
    /\ n_components \in NComps
    /\ n_iterations \in {Some(k) : k \in Iterations}
    /\ data \in PatternLists
    /\ y = None
    /\ Constructed
NextIter == FFit \/ FFitTransform
SpecIter == InitIter /\ [][NextIter]_vars

\* ================================================================ claims
Queries == {"transform", "predict", "inverse_transform"}
\* the exceptions the estimators raise themselves
EstimatorRaised == {NotFittedError}
FitOk == last.op = "fit" /\ last.exc = NoExc
FeatureCount == SetMax({data[i].c : i \in 1..Len(data)})
ZeroSamples == TotalRows(data) = 0
Inconsistent == IF est = SER THEN Len(Val(y)) # data[1].r ELSE ~SameWidth(data)

\* the column mean of the rows pooled, in one pass over them
PooledMean(rows, w) == [j \in 1..w |-> Rat(ISum([i \in 1..Len(rows) |-> rows[i][j]]), Len(rows))]
\* the scatter matrix of the pooled rows centered by m
PooledScatter(rows, m) ==
    [j \in 1..Len(m) |-> [k \in 1..Len(m) |->
        RSum([i \in 1..Len(rows) |->
                 RMul(RSub(RInt(rows[i][j]), m[j]), RSub(RInt(rows[i][k]), m[k]))])]]

\* C1: transform, predict or inverse_transform on an instance no fit has
\* touched fails with the estimator's own not-fitted error.
C1_UnfittedQueryExplicit ==
    (last.op \in Queries /\ last.fresh) => last.exc \in EstimatorRaised

\* C2: a fit that fails on a never-fitted instance leaves every fitted
\* field None (stated for the inputs of at least one sample, where the
\* outcome does not depend on the LAPACK build).
C2_FailedFitLeavesUnset ==
    (last.op = "fit" /\ last.fresh /\ last.exc # NoExc /\ ~ZeroSamples) => Cur = Unset

\* C3: the statistics FederatedSVD aggregates from partitions of one
\* feature count and at least one row in all are those of the pooled data:
\* the pooled row count, the pooled column mean, and the scatter matrix of
\* the pooled rows centered by that mean.
C3_AggregationIdentity ==
    (est = FSVD /\ ~IsNone(global_stats) /\ TotalRows(data) >= 1) =>
        LET g == Val(global_stats)
            rows == ConcatRows(data)
        IN  /\ g.n_samples = Len(rows)
            /\ g.mean = PooledMean(rows, data[1].c)
            /\ g.cov = PooledScatter(rows, PooledMean(rows, data[1].c))
C3_Witness ==
    /\ est = FSVD /\ ~IsNone(global_stats)
    /\ Len(data) = 2 /\ data[1].r = 1 /\ data[2].r = 2 /\ data[1].c = 2
    /\ Val(global_stats).cov[1][2] # RInt(0)

\* C4: what FederatedSVD.fit reads of the nodes at the central server is
\* their three aggregates and no raw row, as get_privacy_budget reports
\* (stated for the fits of at least one sample).
C4_OnlyAggregatesCross ==
    (est = FSVD /\ last.op \in {"fit", "fit_transform"} /\ ~ZeroSamples) =>
        (IsNone(central_view.raw) /\ ~PrivacyBudget.raw_data_shared)

\* C5: after a successful fit the number of retained components, len(s_)
\* and the rows of Vt_, is at most min(samples, features), at most
\* n_components when given, and min(n, p) for SVDEmbeddingRegression
\* without n_components (stated for the fits of at least one sample).
C5_ComponentCount ==
    (FitOk /\ ~ZeroSamples) =>
        /\ Len(Val(s_)) = Val(Vt_)[1]
        /\ Len(Val(s_)) <= Min(TotalRows(data), FeatureCount)
        /\ ~IsNone(n_components) => Len(Val(s_)) <= Val(n_components)
        /\ (est = SER /\ IsNone(n_components)) =>
              Len(Val(s_)) = Min(TotalRows(data), FeatureCount)

\* C6: a fit_transform that succeeds with n_components given returns a
\* matrix of total_rows rows and n_components columns (stated for the inputs
\* of at least one sample).
C6_FitTransformShape ==
    (last.op = "fit_transform" /\ last.exc = NoExc /\ ~IsNone(n_components)
        /\ ~ZeroSamples) =>
        last.ret = Some(<<TotalRows(data), Val(n_components)>>)

\* C7: after a successful DistributedSVD.fit, mean_ is the mean of the
\* row-wise concatenation of the partitions.
C7_WeightedMean ==
    (est = DSVD /\ FitOk) => Val(mean_) = PooledMean(ConcatRows(data), data[1].c)
\* partitions of unequal sizes whose averaged means differ from mean_
C7_Witness ==
    /\ est = DSVD /\ FitOk
    /\ Len(data) = 2 /\ data[1].r # data[2].r /\ data[1].r > 0 /\ data[2].r > 0
    /\ GlobalMeanNaive(data) # Val(mean_)

\* the partitions in the order pi
Permuted(pi) == [i \in 1..Len(data) |-> data[pi[i]]]
Orders == {pi \in [1..Len(data) -> 1..Len(data)] :
                    \A i, j \in 1..Len(data) : pi[i] = pi[j] => i = j}
C9_InconsistentRejected ==
    (last.op = "fit" /\ Inconsistent) => last.exc # NoExc

\* C10: fit on zero samples in all is rejected by an error the estimator
\* raises itself.
C10_ZeroSamplesRejected ==
    (last.op = "fit" /\ ZeroSamples) => last.exc \in EstimatorRaised

\* s_ (the squares) non-negative and in non-increasing order
SingularValuesOrdered(s) ==
    /\ \A i \in 1..Len(s) : RLeq(RInt(0), s[i])
    /\ \A i \in 1..(Len(s) - 1) : RLeq(s[i + 1], s[i])

\* C11: after every successful fit of any estimator, the values of s_ are
\* non-negative and in non-increasing order.
C11_SingularValuesOrdered ==
    FitOk => SingularValuesOrdered(Val(s_))

\* C12: explained_variance_ratio() after a successful fit of DistributedSVD
\* or FederatedSVD returns one entry per retained component, each in [0, 1],
\* in non-increasing order, of sum 1 (stated for the fits of at least one
\* sample; U_ is the last field a fit assigns).
C12_VarianceRatio ==
    (last.op = "explained_variance_ratio" /\ last.exc = NoExc /\ ~IsNone(U_)
        /\ ~ZeroSamples) =>
        LET ratio == Val(last.ret)
        IN  /\ Len(ratio) = Len(Val(s_))
            /\ \A i \in 1..Len(ratio) : RLeq(RInt(0), ratio[i]) /\ RLeq(ratio[i], RInt(1))
            /\ \A i \in 1..(Len(ratio) - 1) : RLeq(ratio[i + 1], ratio[i])
            /\ RSum(ratio) = RInt(1)

\* C13: explained_variance_ratio() fails with the not-fitted error exactly
\* when no fit has set s_: on a fresh instance, after a fit that raised
\* before it assigned s_, and never once a fit has succeeded.
C13_NotFittedIffUnset ==
    last.op = "explained_variance_ratio" =>
        /\ last.exc = NotFittedError <=> IsNone(s_)
        /\ last.fresh => last.exc = NotFittedError
        /\ ~IsNone(U_) => last.exc = NoExc
\* the query after a fit that assigned mean_ and raised before s_
C13_Witness ==
    /\ last.op = "explained_variance_ratio" /\ last.exc = NotFittedError
    /\ ~IsNone(mean_) /\ IsNone(s_)

\* the values the docstring of score names for the degenerate case: none
DocumentedSentinels == {}

\* C14: score(X, y) when all the values of y are equal (SS_tot = 0) signals
\* a failure or returns a documented sentinel, never the result of the
\* division by zero.
C14_DegenerateScoreDefined ==
    (last.op = "score" /\ SsTot(Val(y)) = RInt(0) /\ ~ZeroSamples /\ Val(y) # <<>>) =>
        \/ last.exc # NoExc
        \/ Val(last.ret).r2 \in DocumentedSentinels

EmptiesRemoved(X_partitions) == SelectSeq(X_partitions, LAMBDA X : X.r > 0)
HasEmptyAndNonEmpty ==
    /\ \E i \in 1..Len(data) : data[i].r = 0
    /\ \E i \in 1..Len(data) : data[i].r > 0

\* C16: DistributedSVD.fit on partitions of one feature count, some of zero
\* rows and at least one not, succeeds; the zero-row partitions add no rows
\* to the stacked matrix and nothing to the row count, and mean_, s_, Vt_
\* and U_ are what the fit of the list without them yields.
C16_EmptyPartitionsSkipped ==
    (est = DSVD /\ last.op = "fit" /\ HasEmptyAndNonEmpty) =>
        LET kept == EmptiesRemoved(data)
            w == data[1].c
            all_centered == CenterAll(data, Val(mean_))
            kept_centered == CenterAll(kept, Val(mean_))
        IN  /\ last.exc = NoExc
            /\ Val(mean_) = GlobalMean(kept)
            /\ TotalRows(data) = TotalRows(kept)
            /\ StackedRows(all_centered, w) = StackedRows(kept_centered, w)
            /\ StackedFrob2(all_centered) = StackedFrob2(kept_centered)
            /\ Cur \in {out.f : out \in DFitOutcomes(n_components, kept, Unset)}
\* a list of a zero-row partition and a one-row partition of two features
C16_Witness ==
    /\ est = DSVD /\ FitOk /\ n_components = None
    /\ Len(data) = 2 /\ data[1].r = 0 /\ data[2].r = 1 /\ data[2].c = 2

QueryOps == {"transform", "predict", "inverse_transform", "score",
             "explained_variance_ratio", "get_privacy_budget"}

\* C17: no operation changes the caller's datasets, targets or partition
\* list, and transform, predict, inverse_transform, score,
\* explained_variance_ratio and get_privacy_budget leave every fitted field
\* as it was: only fit and fit_transform write them.
C17_QueriesAndInputsFramed ==
    [][/\ data' = data /\ y' = y
       /\ last'.op \in QueryOps => fitted' = fitted
       /\ fitted' # fitted => last'.op \in {"fit", "fit_transform"}]_vars
\* a query that returned on a fitted model
C17_Witness ==
    /\ last.op \in QueryOps /\ last.exc = NoExc /\ ~IsNone(U_) /\ ~ZeroSamples
    /\ last.op = "transform"

\* what a fit of the instance's class on the caller's current input leaves
\* on a new instance when it succeeds
FreshFits ==
    {out.f : out \in {o \in (IF est = SER THEN SFitOutcomes(n_components, data[1], Val(y), Unset)
                              ELSE IF est = DSVD THEN DFitOutcomes(n_components, data, Unset)
                              ELSE FFitSelf(Self(n_components, n_iterations), data, Unset)) :
                          o.exc = NoExc}}
\* every field a successful fit of the class assigns is set
Complete == ~IsNone(mean_) /\ ~IsNone(s_) /\ ~IsNone(Vt_) /\ ~IsNone(U_)
                /\ (est = SER => ~IsNone(weights_))

\* C18: a fit on an instance whose fields are all set either leaves them
\* all as they were or replaces them all by the results of this one call,
\* so that the fields are never a mixture of two calls (stated for the
\* inputs of at least one sample).
C18_FieldsFromOneFit ==
    [][(last'.op = "fit" /\ Complete /\ ~ZeroSamples) => (Cur' = Cur \/ Cur' \in FreshFits)]_vars

====
